---- MODULE Spec2Model ----
(***************************************************************************)
(* Model of the Figma relay: the caching handler (src/unnamed/part_000)    *)
(* and the plain handler (src/api/figma-enrich.js).                         *)
(*                                                                          *)
(* Strings the code inspects or concatenates (query parameters, cache       *)
(* keys) are sequences of one-character strings; opaque strings (secrets,   *)
(* names, ids) are TLA+ strings.  A JavaScript number is a record           *)
(* [nan, n]; JSON null is the record null.                                  *)
(***************************************************************************)
EXTENDS Integers, Sequences, FiniteSets, TLC

VARIABLES
    env,      \* process.env: [RELAY_KEY, FIGMA_PAT], fixed for the process
    now,      \* Date.now(), in milliseconds
    cache,    \* the Map __FIGMA_CACHE__, as its entries in iteration order
    inv,      \* the invocations in flight: one record per slot
    started,  \* number of invocations started so far
    out,      \* the response sent by the latest step, with what the caller of
              \* a mocked upstream and cache would have observed; NoOut otherwise
    call      \* the latest application of a pure helper (specification Pure)

vars == <<env, now, cache, inv, started, out, call>>

----------------------------------------------------------------------------
(* Bounds of the model *)

NProc == 2            \* invocation slots that may be in flight together
MaxInvocations == 3   \* invocations started in one behaviour
MaxTicks == 1         \* clock advances in one behaviour
MaxPages == 2         \* pages of a generated document tree
MaxChildren == 2      \* children of a page of a generated document tree

----------------------------------------------------------------------------
(* JavaScript values *)

Undef == "<undefined>"                 \* undefined, among opaque strings
Absent == << >>                        \* a query parameter that is absent or ""
null == [isNull |-> TRUE]              \* JSON null
NaN == [nan |-> TRUE, n |-> 0]
Num(k) == [nan |-> FALSE, n |-> k]

Str1 == <<"1">>
Str10 == <<"1", "0">>
Digits == <<"0", "1", "2", "3", "4", "5", "6", "7", "8", "9">>
IsDigit(c) == \E d \in 1..10 : Digits[d] = c
DigitVal(c) == (CHOOSE d \in 1..10 : Digits[d] = c) - 1

RECURSIVE StripWs(_)
StripWs(s) == IF s # << >> /\ Head(s) = " " THEN StripWs(Tail(s)) ELSE s

RECURSIVE DecVal(_, _)
DecVal(u, k) == IF k = 0 THEN 0 ELSE DecVal(u, k - 1) * 10 + DigitVal(u[k])

\* parseInt(s, 10): leading blanks and one sign are skipped, the longest run
\* of decimal digits is read, and NaN is the result when there is none.
parseInt(s) ==
    LET t == StripWs(s)
        signed == t # << >> /\ Head(t) \in {"-", "+"}
        u == IF signed THEN Tail(t) ELSE t
        k == CHOOSE j \in 0..Len(u) :
                /\ \A x \in 1..j : IsDigit(u[x])
                /\ (j = Len(u) \/ ~IsDigit(u[j + 1]))
    IN  IF k = 0 THEN NaN
        ELSE IF signed /\ Head(t) = "-" THEN Num(0 - DecVal(u, k))
        ELSE Num(DecVal(u, k))

\* Math.max and Math.min with one literal argument: NaN is contagious.
MathMax(x, lit) == IF x.nan THEN NaN ELSE IF x.n >= lit THEN x ELSE Num(lit)
MathMin(x, lit) == IF x.nan THEN NaN ELSE IF x.n <= lit THEN x ELSE Num(lit)

\* len >= limit for a number limit: every comparison with NaN is false.
GE(len, limit) == ~limit.nan /\ len >= limit.n

RECURSIVE DecStr(_)
DecStr(k) == IF k < 10 THEN <<Digits[k + 1]>>
             ELSE DecStr(k \div 10) \o <<Digits[(k % 10) + 1]>>

\* `${limit}` in a template string.
NumStr(x) == IF x.nan THEN <<"N", "a", "N">>
             ELSE IF x.n < 0 THEN <<"-">> \o DecStr(0 - x.n)
             ELSE DecStr(x.n)

\* a || b on strings held as sequences
OrElse(a, b) == IF a = << >> THEN b ELSE a

\* String(k).startsWith(p)
startsWith(k, p) == Len(k) >= Len(p) /\ SubSeq(k, 1, Len(p)) = p

Has(obj, f) == f \in DOMAIN obj

----------------------------------------------------------------------------
(* The cache: a Map, held as the sequence of its entries [k, ts, value] in *)
(* insertion order, which is the order cache.entries() iterates in.        *)

TTL_MS == 10 * 60 * 1000

Find(c, key) == {j \in 1..Len(c) : c[j].k = key}
Remove(c, j) == SubSeq(c, 1, j - 1) \o SubSeq(c, j + 1, Len(c))

\* Date.now() - item.ts > TTL_MS
\* (variant) an entry counts as expired already at age TTL
ExpiredAtTtl(item, t) == t - item.ts >= TTL_MS

\* Date.now() - item.ts > TTL_MS
Expired(item, t) == t - item.ts > TTL_MS

NoEntry == [none |-> TRUE]

\* (variant) an entry is removed once it has been read
getCacheEvict(c, key, t) ==
    IF Find(c, key) = {} THEN [value |-> null, cache |-> c, item |-> NoEntry]
    ELSE LET j == CHOOSE x \in Find(c, key) : TRUE IN
         IF Expired(c[j], t) THEN [value |-> null, cache |-> Remove(c, j), item |-> NoEntry]
         ELSE [value |-> c[j].value, cache |-> Remove(c, j), item |-> c[j]]

\* getCache(key) at time t: the value returned (null for none), the cache left
\* behind, the entry deleted when it had expired, and the item the value was
\* read from.
getCache(c, key, t) ==
    IF Find(c, key) = {} THEN [value |-> null, cache |-> c, item |-> NoEntry]
    ELSE LET j == CHOOSE x \in Find(c, key) : TRUE IN
         IF Expired(c[j], t) THEN [value |-> null, cache |-> Remove(c, j), item |-> NoEntry]
         ELSE [value |-> c[j].value, cache |-> c, item |-> c[j]]

\* (variant) the entry is stamped with a time already out of the TTL
setCacheStale(c, key, value, t) ==
    LET e == [k |-> key, ts |-> t - TTL_MS - 1, value |-> value] IN
    IF Find(c, key) = {} THEN Append(c, e)
    ELSE [c EXCEPT ![CHOOSE x \in Find(c, key) : TRUE] = e]

\* (variant) a key that is present keeps its entry
setCacheKeepFirst(c, key, value, t) ==
    LET e == [k |-> key, ts |-> t, value |-> value] IN
    IF Find(c, key) = {} THEN Append(c, e) ELSE c

\* setCache(key, value) at time t: Map.set keeps the place of a key it has.
setCache(c, key, value, t) ==
    LET e == [k |-> key, ts |-> t, value |-> value] IN
    IF Find(c, key) = {} THEN Append(c, e)
    ELSE [c EXCEPT ![CHOOSE x \in Find(c, key) : TRUE] = e]

\* (variant) the loop accepts entries of any age
FallbackMatchAnyAge(c, fileKey, t) ==
    {j \in 1..Len(c) : startsWith(c[j].k, fileKey \o <<"|">>)}

\* The loop over cache.entries() after a 429: the entries it would return.
FallbackMatch(c, fileKey, t) ==
    {j \in 1..Len(c) : startsWith(c[j].k, fileKey \o <<"|">>) /\ t - c[j].ts <= TTL_MS}

\* Index of the entry the loop returns, 0 when it falls through.
FallbackScan(c, fileKey, t) ==
    LET m == FallbackMatch(c, fileKey, t) IN
    IF m = {} THEN 0 ELSE CHOOSE j \in m : \A x \in m : j <= x

\* `${fileKey}|d=${depth}|l=${limit}`
CacheKey(fileKey, depth, limit) ==
    fileKey \o <<"|", "d", "=">> \o depth \o <<"|", "l", "=">> \o NumStr(limit)

----------------------------------------------------------------------------
(* The upstream client *)

IsOk(status) == status >= 200 /\ status <= 299

\* fetchJson on an upstream response r = [status, ct, parses, json, text]:
\* the body is read as JSON only under a JSON content type, and a body that
\* does not parse is null.
fetchJson(r) ==
    IF r.ct = "application/json"
    THEN [ok |-> IsOk(r.status), status |-> r.status,
          json |-> IF r.parses THEN r.json ELSE null, text |-> ""]
    ELSE [ok |-> IsOk(r.status), status |-> r.status, json |-> null, text |-> r.text]

\* !x for the json field: null is the falsy value among the bodies modelled.
Falsy(j) == j = null

----------------------------------------------------------------------------
(* Screen selection *)

\* fileJson?.document?.children || []
DocChildren(fileJson) ==
    IF Has(fileJson, "document") /\ Has(fileJson.document, "children")
    THEN fileJson.document.children ELSE << >>

\* page.children || []
PageChildren(page) == IF Has(page, "children") THEN page.children ELSE << >>

IsScreen(node) == node.type \in {"FRAME", "SECTION"}

\* (variant) the loop returns one element late
RECURSIVE ScanNodesLate(_, _, _)
ScanNodesLate(nodes, limit, acc) ==
    IF nodes = << >> THEN [screens |-> acc, returned |-> FALSE]
    ELSE IF IsScreen(Head(nodes))
    THEN LET acc2 == Append(acc, [id |-> Head(nodes).id, name |-> Head(nodes).name]) IN
         IF ~limit.nan /\ Len(acc2) > limit.n THEN [screens |-> acc2, returned |-> TRUE]
         ELSE ScanNodesLate(Tail(nodes), limit, acc2)
    ELSE ScanNodesLate(Tail(nodes), limit, acc)

\* The inner loop of pickTopScreens: the list so far and whether it returned.
RECURSIVE ScanNodes(_, _, _)
ScanNodes(nodes, limit, acc) ==
    IF nodes = << >> THEN [screens |-> acc, returned |-> FALSE]
    ELSE IF IsScreen(Head(nodes))
    THEN LET acc2 == Append(acc, [id |-> Head(nodes).id, name |-> Head(nodes).name]) IN
         IF GE(Len(acc2), limit) THEN [screens |-> acc2, returned |-> TRUE]
         ELSE ScanNodes(Tail(nodes), limit, acc2)
    ELSE ScanNodes(Tail(nodes), limit, acc)

RECURSIVE ScanPages(_, _, _)
ScanPages(pages, limit, acc) ==
    IF pages = << >> THEN acc
    ELSE IF Head(pages).type # "CANVAS" THEN ScanPages(Tail(pages), limit, acc)
    ELSE LET r == ScanNodes(PageChildren(Head(pages)), limit, acc) IN
         IF r.returned THEN r.screens ELSE ScanPages(Tail(pages), limit, r.screens)

pickTopScreens(fileJson, limit) == ScanPages(DocChildren(fileJson), limit, << >>)

\* The loops of figma-enrich.js: the inner break, then the test repeated
\* after each canvas.
RECURSIVE EnrichScanPages(_, _, _)
EnrichScanPages(pages, limit, acc) ==
    IF pages = << >> THEN acc
    ELSE IF Head(pages).type # "CANVAS" THEN EnrichScanPages(Tail(pages), limit, acc)
    ELSE LET r == ScanNodes(PageChildren(Head(pages)), limit, acc) IN
         IF GE(Len(r.screens), limit) THEN r.screens
         ELSE EnrichScanPages(Tail(pages), limit, r.screens)

\* fileJson.document.children || [] in figma-enrich.js
EnrichDocChildren(fileJson) ==
    IF Has(fileJson.document, "children") THEN fileJson.document.children ELSE << >>

EnrichScreens(fileJson, limit) == EnrichScanPages(EnrichDocChildren(fileJson), limit, << >>)

\* (variant) an empty selection still yields an id
IdsOrRoot(screens) ==
    IF screens = << >> THEN <<"0:0">> ELSE [j \in 1..Len(screens) |-> screens[j].id]

\* screens.map(s => s.id): the ids that join(",") strings together
Ids(screens) == [j \in 1..Len(screens) |-> screens[j].id]

----------------------------------------------------------------------------
(* The environment: requests, configuration and upstream responses *)

Slots == 1..NProc
Idle == [pc |-> "idle"]
NoOut == [h |-> "none"]
NoCall == [fn |-> "none"]

FileA == <<"a">>
FileAd1 == <<"a", "|", "d", "=", "1">>     \* a file key that holds the separator

Methods == {"GET", "POST"}
RelayHeaders == {Undef, "s3cret", "guess"}

Query(fileKey, depth, limit) == [file_key |-> fileKey, depth |-> depth, limit |-> limit]

\* Three queries for one file that differ in depth or limit (absent, clamped
\* and unparsable limits), one for a file whose key holds the separator, and
\* two the validator refuses.
Queries ==
    {Query(FileA, Absent, Absent), Query(FileA, <<"2">>, <<"0">>),
     Query(FileA, Absent, <<"x">>), Query(FileAd1, Absent, Absent),
     Query(Absent, <<"2">>, Absent), Query(FileA, <<"4">>, Absent)}

Requests ==
    {[method |-> m, xRelayKey |-> k, file_key |-> q.file_key, depth |-> q.depth,
      limit |-> q.limit] : m \in Methods, k \in RelayHeaders, q \in Queries}

Envs == [RELAY_KEY : {Undef, "s3cret"}, FIGMA_PAT : {Undef, "figd_pat"}]

Frame(id) == [type |-> "FRAME", id |-> id, name |-> "Login"]
Section(id) == [type |-> "SECTION", id |-> id, name |-> "Flow"]
Text(id) == [type |-> "TEXT", id |-> id, name |-> "Note"]

\* A file with one canvas of two screens and a text node between them, and a
\* body that is an object with neither name nor document.
FileHome ==
    [name |-> "Home", lastModified |-> "2024-05-01",
     document |-> [children |->
        <<[type |-> "CANVAS", children |-> <<Frame("1:1"), Text("1:2"), Section("1:3")>>]>>]]
FileBare == [schemaVersion |-> "0"]
FileJsons == {FileHome, FileBare}

\* An upstream response: its status, its content type, whether its body is
\* valid JSON, the value it parses to when it is, and its text when it is not.
JsonResponse(status, json) ==
    [status |-> status, ct |-> "application/json", parses |-> TRUE, json |-> json, text |-> ""]
TextResponse(status, text) ==
    [status |-> status, ct |-> "text/html", parses |-> FALSE, json |-> null, text |-> text]
\* a JSON content type over a body that does not parse
BrokenResponse(status) ==
    [status |-> status, ct |-> "application/json", parses |-> FALSE, json |-> null,
     text |-> "{\"name\": \"Ho"]

RateLimited == JsonResponse(429, [err |-> "Rate limit exceeded"])
NotFound == JsonResponse(404, [err |-> "Not found"])
ServerError == TextResponse(500, "upstream error")
Maintenance == TextResponse(200, "<html>maintenance</html>")
StatusUnknown == TextResponse(0, "")

FileResponses ==
    {JsonResponse(200, f) : f \in FileJsons}
        \cup {RateLimited, NotFound, ServerError, BrokenResponse(200), Maintenance,
              StatusUnknown}

NodesJson(ids) == [nodes |-> [x \in {ids[j] : j \in 1..Len(ids)} |-> "detail"]]
NodesResponses(ids) ==
    {JsonResponse(200, NodesJson(ids)), JsonResponse(200, [err |-> "no nodes"]),
     RateLimited, ServerError, BrokenResponse(200)}

\* what the upstream may answer the node-detail call slot i is waiting for
NodesResponsesFor(i) ==
    IF inv[i].pc = "nodes" THEN NodesResponses(Ids(inv[i].screens)) ELSE {}

EmptyNodes == [x \in {} |-> "detail"]

----------------------------------------------------------------------------
(* The decisions of the caching handler (src/unnamed/part_000) *)

\* !process.env.X
Unset(v) == v \in {Undef, ""}

\* the test of line 58, negated
Authorized(req, e) == ~(Unset(e.RELAY_KEY) \/ req.xRelayKey # e.RELAY_KEY)

\* String(req.query.depth || "1")
EffDepth(depth) == OrElse(depth, Str1)
ValidDepth(depth) == depth \in {<<"1">>, <<"2">>, <<"3">>}

\* Math.min(Math.max(parseInt(req.query.limit || "10", 10), 1), 25)
EffLimit(limit) == MathMin(MathMax(parseInt(OrElse(limit, Str10)), 1), 25)

\* !fileRes.ok || !fileRes.json
FileFailed(fileRes) == ~fileRes.ok \/ Falsy(fileRes.json)

\* fileRes.status || 502
FailStatus(fileRes) == IF fileRes.status = 0 THEN 502 ELSE fileRes.status

\* fileRes.json || fileRes.text || null; a text is held as [text |-> ...] in
\* this field, which may also hold a JSON value
FailBody(fileRes) ==
    IF ~Falsy(fileRes.json) THEN fileRes.json
    ELSE IF fileRes.text # "" THEN [text |-> fileRes.text] ELSE null

\* the nodes mapping after the node-detail fetch
NodesOf(nodesRes) ==
    IF nodesRes.status = 429 THEN EmptyNodes
    ELSE IF nodesRes.ok /\ ~Falsy(nodesRes.json)
    THEN IF Has(nodesRes.json, "nodes") THEN nodesRes.json.nodes ELSE EmptyNodes
    ELSE EmptyNodes

\* fileJson?.name || "",  fileJson?.lastModified || ""
FieldOr(obj, f) == IF Has(obj, f) THEN obj[f] ELSE ""

Payload(fileKey, fileJson, screens, nodes) ==
    [file_key |-> fileKey, file_name |-> FieldOr(fileJson, "name"),
     last_modified |-> FieldOr(fileJson, "lastModified"),
     screens |-> screens, nodes |-> nodes]

\* { ...payload, _cache: marker }
Marked(payload, marker) == ("_cache" :> marker) @@ payload

ErrorBody(msg) == [error |-> msg]

FileCall(fileKey, depth, token) ==
    [ep |-> "file", file_key |-> fileKey, depth |-> depth, token |-> token]
NodesCall(fileKey, ids, token) ==
    [ep |-> "nodes", file_key |-> fileKey, ids |-> ids, token |-> token]

----------------------------------------------------------------------------
(* The steps of the caching handler.  A step runs from the handler's entry *)
(* or from the return of an awaited upstream call to the next await or to  *)
(* the response.                                                            *)

\* res.status(status).json(body) by the invocation f of slot i.  Beside the
\* response, out keeps what a test double would have recorded: the steps taken
\* (trace), the upstream calls made (calls) and their results (got), the time,
\* and the cache entry the body was read from (served).
RespondFrom(i, f, status, body, entry) ==
    /\ out' = [h |-> f.h, req |-> f.req, status |-> status, body |-> body,
               trace |-> Append(f.trace, "respond"), calls |-> f.calls,
               got |-> f.got, at |-> now, served |-> entry]
    /\ inv' = [inv EXCEPT ![i] = Idle]

Respond(i, f, status, body) == RespondFrom(i, f, status, body, NoEntry)

Entered(kind, req) ==
    [h |-> kind, req |-> req, trace |-> << >>, calls |-> << >>, got |-> << >>]
Did(f, what) == [f EXCEPT !.trace = Append(@, what)]
Got(f, r) == [f EXCEPT !.got = Append(@, r)]
Rejected == [rejected |-> TRUE]

\* lines 128-139: compose the payload, save it, respond
Finish(i, f, nodes) ==
    LET payload == Payload(f.fileKey, f.fileJson, f.screens, nodes) IN
    /\ cache' = setCache(cache, f.ckey, payload, now)
    /\ Respond(i, IF Find(cache, f.ckey) = {} THEN Did(f, "set")
                   ELSE Did(Did(f, "set"), "replace"),
               200, Marked(payload, "miss_set"))

\* The runtime hands a request to a free slot; slots are interchangeable, so
\* the lowest free one is taken.
FreeSlot(i) == inv[i].pc = "idle" /\ \A j \in Slots : j < i => inv[j].pc # "idle"

\* lines 52-87
CachedInvoke(i, req) ==
    /\ FreeSlot(i)
    /\ started < MaxInvocations
    /\ started' = started + 1
    /\ UNCHANGED <<env, now, call>>
    /\ LET f0 == Did(Entered("cached", req), "method") IN
       IF req.method # "GET"
       THEN Respond(i, f0, 405, ErrorBody("Method not allowed")) /\ UNCHANGED cache
       ELSE
       LET f1 == Did(f0, "auth") IN
       IF ~Authorized(req, env)
       THEN Respond(i, f1, 401, ErrorBody("Unauthorized")) /\ UNCHANGED cache
       ELSE
       LET fileKey == req.file_key
           depth == EffDepth(req.depth)
           limit == EffLimit(req.limit)
           f2 == Did(f1, "params")
       IN
       IF fileKey = << >>
       THEN Respond(i, f2, 400, ErrorBody("Missing file_key")) /\ UNCHANGED cache
       ELSE IF ~ValidDepth(depth)
       THEN Respond(i, f2, 400, ErrorBody("depth must be 1,2,3")) /\ UNCHANGED cache
       ELSE IF Unset(env.FIGMA_PAT)
       THEN Respond(i, f2, 500, ErrorBody("Server misconfigured: FIGMA_PAT missing"))
            /\ UNCHANGED cache
       ELSE
       LET ckey == CacheKey(fileKey, depth, limit)
           g == getCache(cache, ckey, now)
           f3 == IF g.cache = cache THEN Did(f2, "get") ELSE Did(Did(f2, "get"), "delete")
       IN
       /\ cache' = g.cache
       /\ IF g.value # null
          THEN RespondFrom(i, f3, 200, Marked(g.value, "hit"), g.item)
          ELSE /\ out' = NoOut
               /\ inv' = [inv EXCEPT ![i] =
                    [pc |-> "file", h |-> "cached", req |-> req, fileKey |-> fileKey,
                     depth |-> depth, limit |-> limit, ckey |-> ckey,
                     trace |-> Append(f3.trace, "file"),
                     calls |-> <<FileCall(fileKey, depth, env.FIGMA_PAT)>>,
                     got |-> << >>]]

\* lines 87-126, the file fetch having returned the response r
FileFetched(i, r) ==
    /\ inv[i].pc = "file" /\ inv[i].h = "cached"
    /\ UNCHANGED <<env, now, started, call>>
    /\ LET f == Got(inv[i], r)
           fileRes == fetchJson(r)
       IN
       IF fileRes.status = 429
       THEN LET j == FallbackScan(cache, f.fileKey, now) IN
            /\ UNCHANGED cache
            /\ IF j # 0
               THEN RespondFrom(i, Did(f, "scan"), 200,
                                Marked(cache[j].value, "fallback_on_429"), cache[j])
               ELSE Respond(i, Did(f, "scan"), 429, ErrorBody(
                      "Figma rate limited (429) and no cache available yet. Retry in a few minutes."))
       ELSE IF FileFailed(fileRes)
       THEN /\ UNCHANGED cache
            /\ Respond(i, f, FailStatus(fileRes),
                 [error |-> "Figma file fetch failed", figma_status |-> fileRes.status,
                  figma_body |-> FailBody(fileRes)])
       ELSE
       LET screens == pickTopScreens(fileRes.json, f.limit)
           ids == Ids(screens)
           f1 == [pc |-> "nodes", h |-> f.h, req |-> f.req, fileKey |-> f.fileKey,
                  depth |-> f.depth, limit |-> f.limit, ckey |-> f.ckey,
                  trace |-> Append(f.trace, "select"), calls |-> f.calls,
                  got |-> f.got, fileJson |-> fileRes.json, screens |-> screens]
       IN
       IF ids # << >>
       THEN /\ UNCHANGED cache
            /\ out' = NoOut
            /\ inv' = [inv EXCEPT ![i] =
                 [f1 EXCEPT !.trace = Append(@, "nodes"),
                            !.calls = Append(@, NodesCall(f.fileKey, ids, env.FIGMA_PAT))]]
       ELSE Finish(i, f1, EmptyNodes)

\* lines 118-139, the node-detail fetch having returned the response r
NodesFetched(i, r) ==
    /\ inv[i].pc = "nodes" /\ inv[i].h = "cached"
    /\ UNCHANGED <<env, now, started, call>>
    /\ Finish(i, Got(inv[i], r), NodesOf(fetchJson(r)))

\* (variant) the rejection is not caught: the invocation ends unanswered
FetchRejectedUnanswered(i) ==
    /\ inv[i].pc \in {"file", "nodes"} /\ inv[i].h = "cached"
    /\ UNCHANGED <<env, now, started, call, cache>>
    /\ out' = NoOut
    /\ inv' = [inv EXCEPT ![i] = Idle]

\* lines 22 and 140-142: fetch() rejects and the handler's catch answers
FetchRejected(i) ==
    /\ inv[i].pc \in {"file", "nodes"} /\ inv[i].h = "cached"
    /\ UNCHANGED <<env, now, started, call, cache>>
    /\ Respond(i, Did(Got(inv[i], Rejected), "catch"), 500,
         [error |-> "Unexpected error", detail |-> "fetch failed"])

NoneInFlight == \A j \in Slots : inv[j].pc = "idle"

\* the requests that pass the tests of lines 53-67
Accepted(req) ==
    /\ req.method = "GET"
    /\ Authorized(req, env)
    /\ req.file_key # << >>
    /\ ValidDepth(EffDepth(req.depth))

\* Date.now() moves on, between any two steps, by exactly the TTL or by one
\* millisecond more: an entry written before the step is then at the last
\* instant it is served, or just past it.
TickSteps == {TTL_MS, TTL_MS + 1}
Ticks(t) == t \div TTL_MS
Tick(d) ==
    /\ Ticks(now) < MaxTicks
    /\ now' = now + d
    /\ out' = NoOut
    /\ UNCHANGED <<env, cache, inv, started, call>>

Init ==
    /\ env \in Envs
    /\ now = 0
    /\ cache = << >>
    /\ inv = [i \in Slots |-> Idle]
    /\ started = 0
    /\ out = NoOut
    /\ call = NoCall

\* A request the handler refuses before line 68 is answered in the step it
\* arrives in and neither reads nor writes the cache, so it commutes with the
\* steps of an invocation in flight: such requests arrive between invocations.
Next ==
    \/ \E i \in Slots, req \in Requests : NoneInFlight /\ CachedInvoke(i, req)
    \/ \E i \in Slots, req \in Requests : Accepted(req) /\ CachedInvoke(i, req)
    \/ \E i \in Slots, r \in FileResponses : FileFetched(i, r)
    \/ \E i \in Slots : \E r \in NodesResponsesFor(i) : NodesFetched(i, r)
    \/ \E i \in Slots : FetchRejected(i)
    \/ \E d \in TickSteps : Tick(d)

Spec == Init /\ [][Next]_vars


\* One invocation at a time: a request arrives only when none is in flight.
SeqNext ==
    \/ \E i \in Slots, req \in Requests : NoneInFlight /\ CachedInvoke(i, req)
    \/ \E i \in Slots, r \in FileResponses : FileFetched(i, r)
    \/ \E i \in Slots : \E r \in NodesResponsesFor(i) : NodesFetched(i, r)
    \/ \E i \in Slots : FetchRejected(i)
    \/ \E d \in TickSteps : Tick(d)

SeqSpec == Init /\ [][SeqNext]_vars

----------------------------------------------------------------------------
(* The plain handler (src/api/figma-enrich.js): no cache, no fetchJson *)

\* the test of line 8, negated
EnrichAuthorized(req, e) == ~(req.xRelayKey # e.RELAY_KEY)

\* req.query.depth || "1"
EnrichDepth(depth) == OrElse(depth, Str1)

\* Math.min(parseInt(req.query.limit || "10", 10), 25)
EnrichLimit(limit) == MathMin(parseInt(OrElse(limit, Str10)), 25)

\* fileJson.name: a field that is undefined is left out of the JSON body
EnrichBody(fileKey, fileJson, screens, nodes) ==
    [file_key |-> fileKey,
     file_name |-> IF Has(fileJson, "name") THEN fileJson.name ELSE Undef,
     screens |-> screens, nodes |-> nodes]

\* lines 59-62 on the response r; the body's json() throwing is a separate case
EnrichNodesOf(r) ==
    IF IsOk(r.status)
    THEN IF Has(r.json, "nodes") THEN r.json.nodes ELSE EmptyNodes
    ELSE EmptyNodes

\* the upstream of a test double never answers this handler with status 0
EnrichFileResponses == FileResponses \ {StatusUnknown}

Caught(i, f, detail) ==
    Respond(i, Did(f, "catch"), 500, [error |-> "Unexpected error", detail |-> detail])

\* lines 2-29
EnrichInvoke(i, req) ==
    /\ FreeSlot(i)
    /\ started < MaxInvocations
    /\ started' = started + 1
    /\ UNCHANGED <<env, now, call, cache>>
    /\ LET f0 == Did(Entered("enrich", req), "method") IN
       IF req.method # "GET"
       THEN Respond(i, f0, 405, ErrorBody("Method not allowed"))
       ELSE
       LET f1 == Did(f0, "auth") IN
       IF ~EnrichAuthorized(req, env)
       THEN Respond(i, f1, 401, ErrorBody("Unauthorized"))
       ELSE
       LET fileKey == req.file_key
           depth == EnrichDepth(req.depth)
           limit == EnrichLimit(req.limit)
           f2 == Did(f1, "params")
       IN
       IF fileKey = << >>
       THEN Respond(i, f2, 400, ErrorBody("Missing file_key"))
       ELSE /\ out' = NoOut
            /\ inv' = [inv EXCEPT ![i] =
                 [pc |-> "file", h |-> "enrich", req |-> req, fileKey |-> fileKey,
                  depth |-> depth, limit |-> limit,
                  trace |-> Append(f2.trace, "file"),
                  calls |-> <<FileCall(fileKey, depth, env.FIGMA_PAT)>>,
                  got |-> << >>]]

\* lines 26-58, the file fetch having returned the response r
EnrichFileFetched(i, r) ==
    /\ inv[i].pc = "file" /\ inv[i].h = "enrich"
    /\ UNCHANGED <<env, now, started, call, cache>>
    /\ LET f == Got(inv[i], r) IN
       IF ~IsOk(r.status)
       THEN Respond(i, f, r.status, ErrorBody("Figma file fetch failed"))
       ELSE IF ~r.parses
       THEN Caught(i, f, "SyntaxError: Unexpected token")
       ELSE IF ~Has(r.json, "document")
       THEN Caught(i, f, "TypeError: Cannot read properties of undefined")
       ELSE
       LET screens == EnrichScreens(r.json, f.limit)
           ids == Ids(screens)
           f1 == [pc |-> "nodes", h |-> f.h, req |-> f.req, fileKey |-> f.fileKey,
                  depth |-> f.depth, limit |-> f.limit,
                  trace |-> Append(f.trace, "select"), calls |-> f.calls,
                  got |-> f.got, fileJson |-> r.json, screens |-> screens]
       IN
       IF ids # << >>
       THEN /\ out' = NoOut
            /\ inv' = [inv EXCEPT ![i] =
                 [f1 EXCEPT !.trace = Append(@, "nodes"),
                            !.calls = Append(@, NodesCall(f.fileKey, ids, env.FIGMA_PAT))]]
       ELSE Respond(i, f1, 200, EnrichBody(f.fileKey, r.json, screens, EmptyNodes))

\* lines 55-70, the node-detail fetch having returned the response r
EnrichNodesFetched(i, r) ==
    /\ inv[i].pc = "nodes" /\ inv[i].h = "enrich"
    /\ UNCHANGED <<env, now, started, call, cache>>
    /\ LET f == Got(inv[i], r) IN
       IF IsOk(r.status) /\ ~r.parses
       THEN Caught(i, f, "SyntaxError: Unexpected token")
       ELSE Respond(i, f, 200, EnrichBody(f.fileKey, f.fileJson, f.screens, EnrichNodesOf(r)))

\* lines 26, 55 and 71-73: fetch() rejects
EnrichFetchRejected(i) ==
    /\ inv[i].pc \in {"file", "nodes"} /\ inv[i].h = "enrich"
    /\ UNCHANGED <<env, now, started, call, cache>>
    /\ Caught(i, Got(inv[i], Rejected), "TypeError: fetch failed")

EnrichNext ==
    \/ \E i \in Slots, req \in Requests : EnrichInvoke(i, req)
    \/ \E i \in Slots, r \in EnrichFileResponses : EnrichFileFetched(i, r)
    \/ \E i \in Slots : \E r \in NodesResponsesFor(i) : EnrichNodesFetched(i, r)
    \/ \E i \in Slots : EnrichFetchRejected(i)

EnrichSpec == Init /\ [][EnrichNext]_vars


----------------------------------------------------------------------------
(* The pure helpers applied to inputs drawn from bounded sets *)

MaxLimitLen == 2      \* characters of a generated limit parameter
LimitChars == {"0", "1", "2", "6", "9", "-", "x"}

RECURSIVE SeqsUpTo(_, _)
SeqsUpTo(S, k) ==
    IF k = 0 THEN {<< >>}
    ELSE LET shorter == SeqsUpTo(S, k - 1) IN
         shorter \cup {Append(q, x) : q \in shorter, x \in S}

LimitStrings == SeqsUpTo(LimitChars, MaxLimitLen)

\* Document trees: pages of type CANVAS or not, with no children field or
\* with children of three types; a node's id is its place in the tree.
NodeTypes == {"FRAME", "SECTION", "TEXT"}
PageTypes == {"CANVAS", "DOCUMENT"}

NodeAt(p, c, t) == [type |-> t, id |-> <<p, c>>, name |-> t]
PageOf(p, t, kinds) ==
    [type |-> t, children |-> [c \in 1..Len(kinds) |-> NodeAt(p, c, kinds[c])]]
ChildKinds == SeqsUpTo(NodeTypes, MaxChildren)
PageShapes == [type : PageTypes, kinds : ChildKinds] \cup [type : PageTypes]
PageAt(p, shape) ==
    IF Has(shape, "kinds") THEN PageOf(p, shape.type, shape.kinds) ELSE [type |-> shape.type]
TreeShapes == SeqsUpTo(PageShapes, MaxPages)
TreeOf(shapes) == [p \in 1..Len(shapes) |-> PageAt(p, shapes[p])]

\* two canvases: three frames and a text node, then two sections
ExampleTree ==
    <<PageOf(1, "CANVAS", <<"FRAME", "FRAME", "TEXT", "FRAME">>),
      PageOf(2, "CANVAS", <<"SECTION", "SECTION">>)>>

Trees == {TreeOf(sh) : sh \in TreeShapes} \cup {ExampleTree}
FileWith(tree) == [name |-> "Probe", document |-> [children |-> tree]]
ProbeFiles == {FileWith(t) : t \in Trees} \cup {[name |-> "Probe", document |-> [id |-> "0:0"]]}

ClampLimits == {Num(k) : k \in 1..25}
ProbeLimits == ClampLimits \cup {NaN, Num(0), Num(-1)}

Handlers == {"cached", "enrich"}

\* The applications to make: a helper of one handler and its arguments.
Probes ==
    [fn : {"limit"}, h : Handlers, arg : LimitStrings]
        \cup [fn : {"screens"}, h : Handlers, file : ProbeFiles, limit : ProbeLimits]

Returned(c, value) == [x \in DOMAIN c \cup {"ret"} |-> IF x = "ret" THEN value ELSE c[x]]

ApplyEffLimit ==
    /\ call.fn = "limit" /\ call.h = "cached" /\ ~Has(call, "ret")
    /\ call' = Returned(call, EffLimit(call.arg))
    /\ UNCHANGED <<env, now, cache, inv, started, out>>

ApplyEnrichLimit ==
    /\ call.fn = "limit" /\ call.h = "enrich" /\ ~Has(call, "ret")
    /\ call' = Returned(call, EnrichLimit(call.arg))
    /\ UNCHANGED <<env, now, cache, inv, started, out>>

ApplyPickTopScreens ==
    /\ call.fn = "screens" /\ call.h = "cached" /\ ~Has(call, "ret")
    /\ call' = Returned(call, pickTopScreens(call.file, call.limit))
    /\ UNCHANGED <<env, now, cache, inv, started, out>>

ApplyEnrichScreens ==
    /\ call.fn = "screens" /\ call.h = "enrich" /\ ~Has(call, "ret")
    /\ call' = Returned(call, EnrichScreens(call.file, call.limit))
    /\ UNCHANGED <<env, now, cache, inv, started, out>>

PureInit ==
    /\ env = [RELAY_KEY |-> "s3cret", FIGMA_PAT |-> "figd_pat"]
    /\ now = 0
    /\ cache = << >>
    /\ inv = [i \in Slots |-> Idle]
    /\ started = 0
    /\ out = NoOut
    /\ call \in Probes

PureNext ==
    \/ ApplyEffLimit
    \/ ApplyEnrichLimit
    \/ ApplyPickTopScreens
    \/ ApplyEnrichScreens

PureSpec == PureInit /\ [][PureNext]_vars


----------------------------------------------------------------------------
(* Both handlers deployed side by side, one invocation at a time, every     *)
(* upstream call returning or failing in the end.                           *)

\* the awaited fetch of slot i settles: a response or a rejection
Settle(i) ==
    \/ \E r \in FileResponses : FileFetched(i, r)
    \/ \E r \in NodesResponsesFor(i) : NodesFetched(i, r)
    \/ FetchRejected(i)

EnrichSettle(i) ==
    \/ \E r \in EnrichFileResponses : EnrichFileFetched(i, r)
    \/ \E r \in NodesResponsesFor(i) : EnrichNodesFetched(i, r)
    \/ EnrichFetchRejected(i)

LiveNext ==
    \/ SeqNext
    \/ \E i \in Slots, req \in Requests : NoneInFlight /\ EnrichInvoke(i, req)
    \/ \E i \in Slots : EnrichSettle(i)

LiveSpec ==
    /\ Init
    /\ [][LiveNext]_vars
    /\ \A i \in Slots : WF_vars(Settle(i)) /\ WF_vars(EnrichSettle(i))

----------------------------------------------------------------------------
(* Vocabulary of the properties *)

Answered == out.h # "none"
InFlight(i) == inv[i].pc # "idle"
HasPayload(body) == "file_key" \in DOMAIN body
MarkerOf(body) == IF "_cache" \in DOMAIN body THEN body["_cache"] ELSE "none"
Strip(body) == [x \in DOMAIN body \ {"_cache"} |-> body[x]]
Took(trace, steps) == \E j \in 1..Len(trace) : trace[j] \in steps
CacheSteps == {"get", "set", "scan"}

SecretConfigured == env.RELAY_KEY \notin {Undef, ""}
TokenConfigured == env.FIGMA_PAT \notin {Undef, ""}
KeyMatches(req) == SecretConfigured /\ req.xRelayKey = env.RELAY_KEY
DepthAsked(req) == IF req.depth = Absent THEN <<"1">> ELSE req.depth
DepthAllowed(req) == DepthAsked(req) \in {<<"1">>, <<"2">>, <<"3">>}

\* an upstream result that is a response whose body is valid JSON under a
\* JSON content type
ParsedJson(r) == r # Rejected /\ r.ct = "application/json" /\ r.parses
FileSucceeded(r) == ParsedJson(r) /\ r.status \in 200..299

----------------------------------------------------------------------------
\* C1: for every GET request the handler goes on only if a relay secret is
\* configured and the X-Relay-Key header equals it; otherwise the answer is
\* 401, no upstream call is made and the cache is neither read nor written.
\* Stated for whichever handler runs; the plain handler violates it.
C1_AuthGate ==
    /\ (Answered /\ out.req.method = "GET" /\ ~KeyMatches(out.req))
          => /\ out.status = 401
             /\ out.calls = << >>
             /\ ~Took(out.trace, CacheSteps)
    /\ \A i \in Slots : InFlight(i) => KeyMatches(inv[i].req)

\* C1 for the caching handler alone, which keeps it (specification Spec).
C1_CachedAuthGate ==
    /\ (Answered /\ out.h = "cached") => C1_AuthGate
    /\ \A i \in Slots : (InFlight(i) /\ inv[i].h = "cached") => KeyMatches(inv[i].req)


----------------------------------------------------------------------------
(* The request of a step in which one arrives, and its cache key *)

Arrives == started' = started + 1
ArrivedReq ==
    IF out' # NoOut THEN out'.req
    ELSE inv'[CHOOSE i \in Slots : inv[i].pc = "idle" /\ inv'[i].pc # "idle"].req

\* requests that pass the method, authorization, parameter and token tests
Served(req) ==
    /\ req.method = "GET"
    /\ KeyMatches(req)
    /\ req.file_key # Absent
    /\ DepthAllowed(req)
    /\ TokenConfigured

ReqKey(req) == CacheKey(req.file_key, DepthAsked(req), EffLimit(req.limit))

\* entries of cache c under key k that are within the TTL at time t
Fresh(c, k, t) == {j \in 1..Len(c) : c[j].k = k /\ t - c[j].ts <= TTL_MS}

IsFileCall(c) == c.ep = "file"
FileCalls(calls) == {j \in 1..Len(calls) : IsFileCall(calls[j])}

----------------------------------------------------------------------------
\* C2: cache idempotence, one invocation at a time (SeqSpec).  (a) A response
\* marked "miss_set" made one file fetch and left its payload, under the
\* request's key and the current time, as the cache entry.  (b) An entry is
\* neither changed nor removed by a step after which its age is <= TTL.
\* (c) A request arriving while the entry under its key has age <= TTL is
\* answered 200 "hit" with exactly the entry's payload and no upstream call.
\* Together: every identical request within the TTL of a "miss_set" gets the
\* same payload, and the pair costs one upstream file fetch.
\* (o is the response, c the cache and t the time after the step)
C2_MissSetStored(o, c, t) ==
    (o # NoOut /\ o.h = "cached" /\ MarkerOf(o.body) = "miss_set")
        => /\ o.status = 200
           /\ Cardinality(FileCalls(o.calls)) = 1
           /\ \E j \in 1..Len(c) :
                 c[j] = [k |-> ReqKey(o.req), ts |-> t, value |-> Strip(o.body)]

C2_EntryKept ==
    \A j \in 1..Len(cache) :
        now' - cache[j].ts <= TTL_MS => \E m \in 1..Len(cache') : cache'[m] = cache[j]

C2_HitWithinTtl ==
    (Arrives /\ Served(ArrivedReq) /\ Fresh(cache, ReqKey(ArrivedReq), now) # {})
        => /\ out' # NoOut
           /\ out'.status = 200
           /\ MarkerOf(out'.body) = "hit"
           /\ \A j \in Fresh(cache, ReqKey(ArrivedReq), now) : Strip(out'.body) = cache[j].value
           /\ out'.calls = << >>

C2_CacheIdempotence == [][/\ C2_MissSetStored(out', cache', now')
       /\ C2_EntryKept
       /\ C2_HitWithinTtl]_vars

\* a "hit" with no upstream call, served at the last instant of the entry
\* that an earlier "miss_set" left
C2_Witness ==
    /\ Answered /\ out.h = "cached" /\ out.status = 200
    /\ MarkerOf(out.body) = "hit"
    /\ out.calls = << >>
    /\ out.body.screens # << >>
    /\ \E j \in 1..Len(cache) :
          /\ cache[j].k = ReqKey(out.req)
          /\ cache[j].value = Strip(out.body)
          /\ now - cache[j].ts = TTL_MS

----------------------------------------------------------------------------
\* C3: TTL expiry.  A request that reaches the lookup is answered from the
\* entry under its exact key if and only if there is one whose age is <= TTL
\* (then as "hit", with its value); otherwise it is not answered in that step
\* and a fresh upstream file fetch is issued.  Whatever is answered from the
\* cache, as "hit" or as "fallback_on_429", comes from an entry whose age is
\* <= TTL at that moment, so never from an entry found expired.
C3_LookupByAge ==
    (Arrives /\ Served(ArrivedReq))
        => LET req == ArrivedReq
               fresh == Fresh(cache, ReqKey(req), now)
           IN  IF fresh # {}
               THEN /\ out' # NoOut
                    /\ MarkerOf(out'.body) = "hit"
                    /\ \A j \in fresh : out'.served = cache[j]
               ELSE /\ out' = NoOut
                    /\ \E i \in Slots :
                          /\ inv[i].pc = "idle" /\ inv'[i].pc = "file"
                          /\ inv'[i].req = req
                          /\ inv'[i].calls =
                               <<FileCall(req.file_key, DepthAsked(req), env.FIGMA_PAT)>>

\* (o is the response, c the cache and t the time after the step)
C3_ServedWithinTtl(o, c, t) ==
    (o # NoOut /\ MarkerOf(o.body) \in {"hit", "fallback_on_429"})
        => /\ o.served # NoEntry
           /\ \E j \in 1..Len(c) : c[j] = o.served
           /\ t - o.served.ts <= TTL_MS
           /\ Strip(o.body) = o.served.value
           /\ MarkerOf(o.body) = "hit" => o.served.k = ReqKey(o.req)

C3_TtlExpiry == [][C3_LookupByAge /\ C3_ServedWithinTtl(out', cache', now')]_vars

\* a request found the entry under its key expired, deleted it, and is
\* waiting for the file fetch it issued
C3_Witness ==
    \E i \in Slots :
        /\ inv[i].pc = "file" /\ inv[i].h = "cached"
        /\ Took(inv[i].trace, {"delete"})
        /\ Len(inv[i].calls) = 1 /\ IsFileCall(inv[i].calls[1])
        /\ \A j \in 1..Len(cache) : cache[j].k # inv[i].ckey

----------------------------------------------------------------------------
\* C4: rate-limit fallback.  When the file fetch of a request returns 429 and
\* the cache holds an entry within TTL that was stored for the same file id
\* under another depth or limit, the answer is 200 "fallback_on_429" with the
\* payload of the first entry, in the cache's iteration order, that is within
\* TTL and was stored for that file id; no node-detail call is made.
RateLimitedFile == Answered /\ out.h = "cached" /\ Len(out.got) = 1 /\ out.got[1] = RateLimited

\* entries within TTL stored for the file the answered request asked for
SameFileFresh ==
    {j \in 1..Len(cache) :
        cache[j].value.file_key = out.req.file_key /\ now - cache[j].ts <= TTL_MS}

C4_RateLimitFallback ==
    (RateLimitedFile /\ \E j \in SameFileFresh : cache[j].k # ReqKey(out.req))
        => /\ out.status = 200
           /\ MarkerOf(out.body) = "fallback_on_429"
           /\ \E m \in SameFileFresh :
                 /\ \A j \in SameFileFresh : m <= j
                 /\ out.served = cache[m]
                 /\ Strip(out.body) = cache[m].value
           /\ Len(out.calls) = 1 /\ IsFileCall(out.calls[1])

\* What the handler keeps of C4: the entry served is the first one within TTL
\* whose key begins with "file_id|", whichever file it was stored for.
PrefixFresh(fileKey) ==
    {j \in 1..Len(cache) :
        startsWith(cache[j].k, fileKey \o <<"|">>) /\ now - cache[j].ts <= TTL_MS}

C4_FirstPrefixMatch ==
    (RateLimitedFile /\ PrefixFresh(out.req.file_key) # {})
        => /\ out.status = 200
           /\ MarkerOf(out.body) = "fallback_on_429"
           /\ \E m \in PrefixFresh(out.req.file_key) :
                 /\ \A j \in PrefixFresh(out.req.file_key) : m <= j
                 /\ out.served = cache[m]
                 /\ Strip(out.body) = cache[m].value
           /\ Len(out.calls) = 1 /\ IsFileCall(out.calls[1])

\* a fallback answered from an entry of the same file, under another key,
\* that is first in iteration order while a later matching entry is newer
C4_FirstNotNewest ==
    /\ RateLimitedFile
    /\ MarkerOf(out.body) = "fallback_on_429"
    /\ out.served.k # ReqKey(out.req)
    /\ out.served.value.file_key = out.req.file_key
    /\ \E j \in PrefixFresh(out.req.file_key) : cache[j].ts > out.served.ts

----------------------------------------------------------------------------
\* C5: rate limit with no fallback.  When the file fetch returns 429 and the
\* cache holds no entry within TTL stored for that file id, the answer is 429
\* with an error body and no payload fields, no node-detail call is made and
\* nothing is written to the cache.
C5_RateLimitNoFallback ==
    (RateLimitedFile /\ SameFileFresh = {})
        => /\ out.status = 429
           /\ "error" \in DOMAIN out.body
           /\ ~HasPayload(out.body)
           /\ Len(out.calls) = 1 /\ IsFileCall(out.calls[1])
           /\ ~Took(out.trace, {"set"})


\* What the handler keeps of C5: 429 with an error body when no entry within
\* TTL has a key that begins with "file_id|".
C5_NoPrefixMatch ==
    (RateLimitedFile /\ PrefixFresh(out.req.file_key) = {})
        => /\ out.status = 429
           /\ "error" \in DOMAIN out.body
           /\ ~HasPayload(out.body)
           /\ Len(out.calls) = 1 /\ IsFileCall(out.calls[1])
           /\ ~Took(out.trace, {"set"})

----------------------------------------------------------------------------
\* C6: node-fetch degradation.  Whenever the file fetch succeeded, the answer
\* is 200 with a payload whatever became of the node-detail fetch; when that
\* fetch was rate-limited or failed in any other way (status not 2xx, body
\* that does not parse, or the network call itself failing) the payload has
\* nodes = {}.
C6_NodeFetchDegradation ==
    (Answered /\ out.h = "cached" /\ Len(out.got) >= 1 /\ FileSucceeded(out.got[1]))
        => /\ out.status = 200
           /\ HasPayload(out.body)
           /\ (Len(out.got) = 2 /\ ~FileSucceeded(out.got[2])) => out.body.nodes = EmptyNodes

\* What the handler keeps of C6: the same, for node-detail fetches that return
\* a response.
C6_DegradesOnResponse ==
    (Answered /\ Len(out.got) = 2 /\ out.got[2] = Rejected) \/ C6_NodeFetchDegradation

----------------------------------------------------------------------------
\* C7: parameter validation, for whichever handler runs.  An authorized GET
\* request with no file_key, or with a depth outside {"1","2","3"} (an absent
\* depth counting as "1"), is answered 400 with no upstream call and no cache
\* read or write; so an authorized request in flight has a file_key and an
\* allowed depth, and asks the upstream for that depth.
C7_ParamValidation ==
    /\ (/\ Answered /\ out.req.method = "GET" /\ KeyMatches(out.req)
        /\ (out.req.file_key = Absent \/ ~DepthAllowed(out.req)))
          => /\ out.status = 400
             /\ out.calls = << >>
             /\ ~Took(out.trace, CacheSteps)
    /\ \A i \in Slots :
          (InFlight(i) /\ KeyMatches(inv[i].req))
              => /\ inv[i].req.file_key # Absent
                 /\ DepthAllowed(inv[i].req)
                 /\ inv[i].calls[1].depth = DepthAsked(inv[i].req)

\* C7 for the caching handler alone, which keeps it (specification Spec).
C7_CachedParamValidation ==
    /\ (Answered /\ out.h = "cached") => C7_ParamValidation
    /\ \A i \in Slots :
          (InFlight(i) /\ inv[i].h = "cached")
              => /\ inv[i].req.file_key # Absent
                 /\ DepthAllowed(inv[i].req)
                 /\ inv[i].calls[1].depth = DepthAsked(inv[i].req)

----------------------------------------------------------------------------
\* C8: limit clamping, for whichever handler runs.  Whatever the limit
\* parameter is, the effective limit is an integer in [1,25]: 10 when the
\* parameter is absent, clamp(n, 1, 25) when it is the integer n; the cache
\* key is built from it and no payload has more than 25 screens.
IsIntLit(s) ==
    /\ s # << >>
    /\ LET u == IF Head(s) = "-" THEN Tail(s) ELSE s IN
       u # << >> /\ \A j \in 1..Len(u) : IsDigit(u[j])

RECURSIVE DigitsVal(_)
DigitsVal(u) ==
    IF u = << >> THEN 0 ELSE DigitsVal(SubSeq(u, 1, Len(u) - 1)) * 10 + DigitVal(u[Len(u)])

IntVal(s) == IF Head(s) = "-" THEN 0 - DigitsVal(Tail(s)) ELSE DigitsVal(s)
Clamp(n, lo, hi) == IF n < lo THEN lo ELSE IF n > hi THEN hi ELSE n

Clamped(input, limit) ==
    /\ limit \in ClampLimits
    /\ input = Absent => limit = Num(10)
    /\ IsIntLit(input) => limit = Num(Clamp(IntVal(input), 1, 25))

C8_LimitClamping ==
    /\ \A i \in Slots :
          InFlight(i)
              => /\ Clamped(inv[i].req.limit, inv[i].limit)
                 /\ inv[i].h = "cached"
                       => inv[i].ckey = CacheKey(inv[i].req.file_key, DepthAsked(inv[i].req),
                                                 inv[i].limit)
    /\ (call.fn = "limit" /\ Has(call, "ret")) => Clamped(call.arg, call.ret)
    /\ (Answered /\ HasPayload(out.body)) => Len(out.body.screens) <= 25

----------------------------------------------------------------------------
\* C9: screen selection.  For every document tree and every limit in [1,25]
\* the selection of either handler is exactly the first min(limit, N) of the
\* {id, name} pairs of the FRAME or SECTION children of the CANVAS children of
\* the document root, in traversal order, N being their number: nothing else
\* is included, and a tree without canvases or qualifying children gives the
\* empty list.
TreeIn(file) ==
    IF "document" \in DOMAIN file /\ "children" \in DOMAIN file.document
    THEN file.document.children ELSE << >>

KidsOf(page) == IF "children" \in DOMAIN page THEN page.children ELSE << >>

\* the places <<page, child>> of the qualifying nodes of a tree
Qualifying(tree) ==
    UNION {{<<p, c>> : c \in {x \in 1..Len(KidsOf(tree[p])) :
                                 KidsOf(tree[p])[x].type \in {"FRAME", "SECTION"}}} :
           p \in {y \in 1..Len(tree) : tree[y].type = "CANVAS"}}

Before(a, b) == a[1] < b[1] \/ (a[1] = b[1] /\ a[2] < b[2])
RankIn(S, q) == Cardinality({x \in S : Before(x, q)}) + 1

C9_ScreenSelection ==
    (call.fn = "screens" /\ Has(call, "ret") /\ call.limit \in ClampLimits)
        => LET tree == TreeIn(call.file)
               S == Qualifying(tree)
               n == IF call.limit.n < Cardinality(S) THEN call.limit.n ELSE Cardinality(S)
           IN  /\ Len(call.ret) = n
               /\ \A q \in S :
                     RankIn(S, q) <= n
                         => call.ret[RankIn(S, q)] =
                              [id |-> tree[q[1]].children[q[2]].id,
                               name |-> tree[q[1]].children[q[2]].name]

\* limit 4 on two canvases, three frames and a text node then two sections:
\* the three frames and the first section
C9_Witness ==
    /\ call.fn = "screens" /\ Has(call, "ret")
    /\ call.file = FileWith(ExampleTree) /\ call.limit = Num(4)
    /\ call.ret = <<[id |-> <<1, 1>>, name |-> "FRAME"], [id |-> <<1, 2>>, name |-> "FRAME"],
                    [id |-> <<1, 4>>, name |-> "FRAME"], [id |-> <<2, 1>>, name |-> "SECTION"]>>

----------------------------------------------------------------------------
\* C10: upstream failure.  When the file fetch returns a response that is not
\* a rate limit and not a success (a status outside 2xx other than 429, or a
\* 2xx status with a body that does not parse), the answer is an error
\* envelope carrying the upstream status and the upstream body, sent with the
\* upstream's status code, or 502 when that is unknown; no node-detail call is
\* made and nothing is written to the cache.
FileFetchFailed ==
    /\ Answered /\ out.h = "cached" /\ Len(out.got) = 1
    /\ out.got[1] # Rejected
    /\ out.got[1].status # 429
    /\ ~FileSucceeded(out.got[1])

\* the body the upstream sent: its JSON value, or else its text
UpstreamBody(r) ==
    IF ParsedJson(r) THEN r.json ELSE IF r.text = "" THEN null ELSE [text |-> r.text]

\* the body as fetchJson keeps it: text is read only under a content type
\* that is not JSON
KeptBody(r) ==
    IF ParsedJson(r) THEN r.json
    ELSE IF r.ct # "application/json" /\ r.text # "" THEN [text |-> r.text] ELSE null

FailureEnvelope(carried) ==
    /\ out.status = (IF out.got[1].status = 0 THEN 502 ELSE out.got[1].status)
    /\ "error" \in DOMAIN out.body
    /\ out.body.figma_status = out.got[1].status
    /\ out.body.figma_body = carried
    /\ Len(out.calls) = 1 /\ IsFileCall(out.calls[1])
    /\ ~Took(out.trace, {"set"})

C10_UpstreamFailure == FileFetchFailed => FailureEnvelope(UpstreamBody(out.got[1]))

\* What the handler keeps of C10: the envelope carries the body as far as
\* fetchJson kept it.
C10_KeptBody == FileFetchFailed => FailureEnvelope(KeptBody(out.got[1]))


----------------------------------------------------------------------------
\* C11: upstream token fail-fast, for whichever handler runs.  Every upstream
\* call carries the token of the server configuration, which is set; when it
\* is not set, an authorized GET request with a file_key and an allowed depth
\* is answered 500 without any upstream call and without being served from
\* the cache.
CarryToken(calls) ==
    \A j \in 1..Len(calls) : TokenConfigured /\ calls[j].token = env.FIGMA_PAT

C11_TokenFailFast ==
    /\ \A i \in Slots : InFlight(i) => CarryToken(inv[i].calls)
    /\ Answered => CarryToken(out.calls)
    /\ (Answered /\ ~TokenConfigured
        /\ out.req.method = "GET" /\ KeyMatches(out.req)
        /\ out.req.file_key # Absent /\ DepthAllowed(out.req))
          => /\ out.status = 500
             /\ out.calls = << >>
             /\ ~HasPayload(out.body)

\* C11 for the caching handler alone, which keeps it (specification Spec).
C11_CachedTokenFailFast ==
    /\ \A i \in Slots : (InFlight(i) /\ inv[i].h = "cached") => CarryToken(inv[i].calls)
    /\ (Answered /\ out.h = "cached") => C11_TokenFailFast


----------------------------------------------------------------------------
\* C12: single fetch per TTL window, one invocation at a time (SeqSpec).  As
\* claimed, for any upstream outcomes: a request that arrives within TTL of
\* the answer to an invocation for the same (file_key, depth, limit) that
\* called the upstream is answered without an upstream call.
SameTripleWithinTtl ==
    /\ Answered /\ out.h = "cached" /\ out.calls # << >>
    /\ Arrives /\ Served(ArrivedReq)
    /\ ReqKey(ArrivedReq) = ReqKey(out.req)
    /\ now' - out.at <= TTL_MS

NoFetch == out' # NoOut /\ out'.calls = << >>

C12_SingleFetchAnyOutcome == [][SameTripleWithinTtl => NoFetch]_vars

\* C12 as the handler keeps it: only a fetch sequence that succeeded (answered
\* "miss_set", its payload stored) closes the window.  A request that arrives
\* within TTL of such an answer for its triple, or while the entry stored
\* under its key has age <= TTL, is answered without an upstream call; after
\* a fetch sequence that failed the next request fetches again.
C12_SingleFetchAfterSuccess ==
    [][/\ (SameTripleWithinTtl /\ MarkerOf(out.body) = "miss_set") => NoFetch
       /\ (Arrives /\ Served(ArrivedReq) /\ Fresh(cache, ReqKey(ArrivedReq), now) # {})
             => NoFetch]_vars

\* a second fetch sequence for a triple has succeeded, begun after the entry
\* of the first was found expired
C12_Witness ==
    /\ Answered /\ out.h = "cached"
    /\ MarkerOf(out.body) = "miss_set"
    /\ Took(out.trace, {"delete"})
    /\ Cardinality(FileCalls(out.calls)) = 1
    /\ now > TTL_MS


----------------------------------------------------------------------------
\* C13: concurrent cache population is a benign race (Spec, invocations
\* interleaved at their upstream calls).  Invocations for one key may both
\* miss and both fetch; each answers "miss_set" with the payload built from
\* its own upstream results, and its setCache leaves, under its key, exactly
\* that payload with the time of the write, so that the writer that ran last
\* decides the entry.  A step that adds or changes an entry is such a write:
\* no entry mixes two payloads and none is stored under a key that no
\* invocation wrote.
OwnPayload(o) ==
    LET fileJson == o.got[1].json
        nodes == IF Len(o.got) = 2 /\ FileSucceeded(o.got[2])
                    /\ "nodes" \in DOMAIN o.got[2].json
                 THEN o.got[2].json.nodes ELSE EmptyNodes
    IN  [file_key |-> o.req.file_key,
         file_name |-> IF "name" \in DOMAIN fileJson THEN fileJson.name ELSE "",
         last_modified |->
             IF "lastModified" \in DOMAIN fileJson THEN fileJson.lastModified ELSE "",
         screens |-> pickTopScreens(fileJson, EffLimit(o.req.limit)),
         nodes |-> nodes]

\* the entry that the writer answering o leaves at time t
Written(o, t) == [k |-> ReqKey(o.req), ts |-> t, value |-> OwnPayload(o)]

Entries(c) == {c[j] : j \in 1..Len(c)}

C13_OwnPayloadStored(o, c, t) ==
    (o # NoOut /\ o.h = "cached" /\ MarkerOf(o.body) = "miss_set")
        => /\ Strip(o.body) = OwnPayload(o)
           /\ Written(o, t) \in Entries(c)
           /\ \A e \in Entries(c) : e.k = ReqKey(o.req) => e = Written(o, t)

C13_OnlyWritersWrite ==
    \A e \in Entries(cache') \ Entries(cache) :
        /\ out' # NoOut /\ out'.h = "cached"
        /\ MarkerOf(out'.body) = "miss_set"
        /\ e = Written(out', now')

C13_BenignRace == [][C13_OwnPayloadStored(out', cache', now') /\ C13_OnlyWritersWrite]_vars

\* the second writer of a key, which found the first writer's entry in place,
\* has answered with its own payload, and that payload with its time is now
\* the entry
C13_Witness ==
    /\ Answered /\ out.h = "cached"
    /\ MarkerOf(out.body) = "miss_set"
    /\ Took(out.trace, {"replace"})
    /\ Written(out, now) \in Entries(cache)
    /\ out.body.screens # << >>


----------------------------------------------------------------------------
\* C14: pipeline order and call budget of the caching handler.  The stages an
\* invocation has gone through occur in the order method check,
\* authorization, parameter validation, cache lookup, file fetch, screen
\* selection, node fetch, cache store, respond.  It makes at most two upstream
\* calls, the file call first; a hit makes none; every miss makes the file
\* call; the node-detail call is made exactly when the file fetch succeeded
\* and the selection is not empty, and without it nodes = {}.
StageOrder ==
    <<"method", "auth", "params", "get", "file", "select", "nodes", "set", "respond">>

StageOf(step) == CHOOSE n \in 1..Len(StageOrder) : StageOrder[n] = step
IsStage(step) == \E n \in 1..Len(StageOrder) : StageOrder[n] = step

InOrder(trace) ==
    \A a, b \in 1..Len(trace) :
        (a < b /\ IsStage(trace[a]) /\ IsStage(trace[b]))
            => StageOf(trace[a]) < StageOf(trace[b])

\* the selection an invocation makes from the file it was sent
Selected(f) == pickTopScreens(f.got[1].json, EffLimit(f.req.limit))

\* f is an invocation in flight or the answer of one
CallBudget(f) ==
    /\ Len(f.calls) <= 2
    /\ Len(f.calls) >= 1 => IsFileCall(f.calls[1]) /\ Took(f.trace, {"get"})
    /\ Took(f.trace, {"get"}) /\ ~Took(f.trace, {"file"}) => f.calls = << >>
    /\ Took(f.trace, {"file"}) => Len(f.calls) >= 1
    /\ Len(f.calls) = 2
          => /\ f.calls[2].ep = "nodes"
             /\ FileSucceeded(f.got[1])
             /\ Selected(f) # << >>
             /\ f.calls[2].ids = [j \in 1..Len(Selected(f)) |-> Selected(f)[j].id]
    /\ (Len(f.got) >= 1 /\ FileSucceeded(f.got[1]) /\ Selected(f) # << >>)
          => Len(f.calls) = 2

C14_PipelineOrder ==
    /\ \A i \in Slots :
          (InFlight(i) /\ inv[i].h = "cached") => InOrder(inv[i].trace) /\ CallBudget(inv[i])
    /\ (Answered /\ out.h = "cached")
          => /\ InOrder(out.trace) /\ CallBudget(out)
             /\ out.trace[Len(out.trace)] = "respond"
             /\ MarkerOf(out.body) = "hit" => out.calls = << >>
             /\ (Took(out.trace, {"get"}) /\ MarkerOf(out.body) # "hit")
                   => Len(out.calls) >= 1
             /\ (Len(out.got) = 1 /\ FileSucceeded(out.got[1]))
                   => /\ Selected(out) = << >>
                      /\ out.status = 200 /\ out.body.nodes = EmptyNodes

\* an invocation that went through all nine stages and made both calls
C14_Witness ==
    /\ Answered /\ out.h = "cached"
    /\ out.trace = StageOrder
    /\ Len(out.calls) = 2 /\ Len(out.got) = 2
    /\ MarkerOf(out.body) = "miss_set"


----------------------------------------------------------------------------
\* C15: cache writes happen only on the miss path.  A step that adds or
\* changes an entry is the answer "miss_set" of an invocation that looked its
\* key up, missed, and got a successful file fetch; it writes exactly one
\* entry, under its own key, with the current time, and leaves every entry
\* under another key as it was.  Every other step adds nothing and changes no
\* entry; the only entry it may remove is the expired one under the key that
\* an arriving request looks up.
Added == Entries(cache') \ Entries(cache)
Dropped == Entries(cache) \ Entries(cache')

IsWrite == out' # NoOut /\ out'.h = "cached" /\ MarkerOf(out'.body) = "miss_set"

C15_WriteOnMissPath ==
    IsWrite
        => LET own == [k |-> ReqKey(out'.req), ts |-> now', value |-> Strip(out'.body)] IN
           /\ out'.status = 200
           /\ Took(out'.trace, {"get"}) /\ FileSucceeded(out'.got[1])
           /\ own \in Entries(cache')
           /\ Added \subseteq {own}
           /\ \A e \in Dropped : e.k = own.k
           /\ Len(cache') = Len(cache) + (IF \E e \in Entries(cache) : e.k = own.k THEN 0 ELSE 1)
           /\ now' = now

C15_NoOtherWrite ==
    ~IsWrite
        => /\ Added = {}
           /\ Cardinality(Dropped) <= 1
           /\ \A e \in Dropped :
                 /\ Arrives /\ Served(ArrivedReq)
                 /\ e.k = ReqKey(ArrivedReq)
                 /\ now - e.ts > TTL_MS

C15_CacheWrites == [][C15_WriteOnMissPath /\ C15_NoOtherWrite]_vars

\* a "miss_set" answer has written its entry beside an older entry under
\* another key, which is still there
C15_Witness ==
    /\ Answered /\ out.h = "cached"
    /\ MarkerOf(out.body) = "miss_set"
    /\ [k |-> ReqKey(out.req), ts |-> now, value |-> Strip(out.body)] \in Entries(cache)
    /\ \E e \in Entries(cache) : e.k # ReqKey(out.req) /\ e.ts < now


----------------------------------------------------------------------------
\* C16: status and envelope agree (caching handler).  Every answer with HTTP
\* status 200 carries a payload and a marker among "hit", "fallback_on_429"
\* and "miss_set"; every answer that carries an error envelope has a status
\* outside 2xx and no payload.  The marker tells where the payload came from:
\* "hit" only from the entry under the request's own key with no upstream
\* call, "fallback_on_429" only after the file fetch returned 429, "miss_set"
\* only after a successful file fetch whose payload was stored.
Markers == {"hit", "fallback_on_429", "miss_set"}

MarkerProvenance ==
    /\ MarkerOf(out.body) \in Markers \cup {"none"}
    /\ MarkerOf(out.body) # "none" => out.status = 200 /\ HasPayload(out.body)
    /\ MarkerOf(out.body) = "hit"
          => /\ out.calls = << >>
             /\ out.served # NoEntry
             /\ out.served.k = ReqKey(out.req)
             /\ Strip(out.body) = out.served.value
    /\ MarkerOf(out.body) = "fallback_on_429"
          => /\ Len(out.got) = 1 /\ out.got[1] # Rejected
             /\ out.got[1].status = 429
    /\ MarkerOf(out.body) = "miss_set"
          => /\ FileSucceeded(out.got[1])
             /\ [k |-> ReqKey(out.req), ts |-> now, value |-> Strip(out.body)] \in Entries(cache)

C16_StatusEnvelope ==
    (Answered /\ out.h = "cached")
        => /\ out.status = 200 => HasPayload(out.body) /\ MarkerOf(out.body) \in Markers
           /\ "error" \in DOMAIN out.body
                 => out.status \notin 200..299 /\ ~HasPayload(out.body)
           /\ MarkerProvenance

\* What the handler keeps of C16: all of it, but for the answer to a file
\* fetch that returned a 2xx status with a body that is not parsed JSON.
C16_ExceptUnparsed2xx ==
    (FileFetchFailed /\ out.got[1].status \in 200..299) \/ C16_StatusEnvelope


----------------------------------------------------------------------------
\* C17: fallback stays within the requested file.  For every file_key, those
\* that contain "|" included, an answer marked "fallback_on_429" carries a
\* payload whose file_key is the requested one: the entry served was stored
\* for that file.
C17_FallbackWithinFile ==
    (Answered /\ out.h = "cached" /\ MarkerOf(out.body) = "fallback_on_429")
        => /\ out.body.file_key = out.req.file_key
           /\ out.served.value.file_key = out.req.file_key

\* What the handler keeps of C17: the same while no file_key in play contains
\* the separator.
HasBar(fileKey) == \E j \in 1..Len(fileKey) : fileKey[j] = "|"

C17_WithoutSeparator ==
    \/ Answered /\ HasBar(out.req.file_key)
    \/ \E e \in Entries(cache) : HasBar(e.value.file_key)
    \/ C17_FallbackWithinFile


----------------------------------------------------------------------------
\* C18: cache key and payload agree.  Every entry sits under the key built
\* from a (file_key, depth, limit) with depth in {"1","2","3"} and limit in
\* [1,25], its payload has that file_key and at most limit screens; the entry
\* that a "miss_set" answer stores was selected from the file fetched for the
\* request's file_key at the request's depth.  Requests that differ in
\* file_key, depth or effective limit have different keys, and a "hit" serves
\* the entry under the request's own key.
AllowedDepths == {<<"1">>, <<"2">>, <<"3">>}

KeyedBy(e, limits) ==
    \E d \in AllowedDepths, l \in limits :
        /\ e.k = CacheKey(e.value.file_key, d, l)
        /\ GE(l.n, Num(Len(e.value.screens)))

Triple(q) == <<q.file_key, DepthAsked(q), EffLimit(q.limit)>>

StoredFromOwnFetch ==
    (Answered /\ out.h = "cached" /\ MarkerOf(out.body) = "miss_set")
        => /\ out.calls[1].file_key = out.req.file_key
           /\ out.calls[1].depth = DepthAsked(out.req)
           /\ out.body.file_key = out.req.file_key
           /\ out.body.screens = Selected(out)

DistinctKeys ==
    \A q1, q2 \in {q \in Queries : q.file_key # Absent /\ DepthAllowed(q)} :
        Triple(q1) # Triple(q2) => ReqKey(q1) # ReqKey(q2)

HitOwnTriple ==
    (Answered /\ out.h = "cached" /\ MarkerOf(out.body) = "hit")
        => /\ out.served.k = ReqKey(out.req)
           /\ out.body.file_key = out.req.file_key

C18_KeyPayloadAgree ==
    /\ \A e \in Entries(cache) : KeyedBy(e, ClampLimits)
    /\ StoredFromOwnFetch
    /\ DistinctKeys
    /\ HitOwnTriple

\* What the handler keeps of C18: the same, but that an entry may sit under
\* the key of the limit NaN, with a screens list that has no bound.
C18_OrNaNKey ==
    /\ \A e \in Entries(cache) :
          \/ KeyedBy(e, ClampLimits)
          \/ \E d \in AllowedDepths : e.k = CacheKey(e.value.file_key, d, NaN)
    /\ StoredFromOwnFetch
    /\ DistinctKeys
    /\ HitOwnTriple


----------------------------------------------------------------------------
\* C19: exactly one response per invocation, for either handler, every
\* upstream call returning or failing in the end (LiveSpec).  An invocation
\* that arrives is answered in that step or goes in flight; one in flight is
\* eventually answered; the step in which it leaves is the one response to
\* its request, after which it makes no call and writes nothing.  An answer
\* that followed a fault, a rejected network call included, is a 500 error
\* envelope with the detail as a string.
Responds(f) ==
    /\ out' # NoOut
    /\ out'.req = f.req /\ out'.h = f.h
    /\ Cardinality({j \in 1..Len(out'.trace) : out'.trace[j] = "respond"}) = 1
    /\ out'.trace[Len(out'.trace)] = "respond"

Leaving == {i \in Slots : inv[i].pc # "idle" /\ inv'[i].pc = "idle"}
Entering == {i \in Slots : inv[i].pc = "idle" /\ inv'[i].pc # "idle"}

C19_OneResponse ==
    /\ \A i \in Leaving : Responds(inv[i])
    /\ Cardinality(Leaving) <= 1
    /\ Arrives => Leaving = {} /\ Cardinality(Entering) <= 1
    /\ (Arrives /\ Entering = {}) => out' # NoOut /\ out'.trace[Len(out'.trace)] = "respond"
    /\ out' # NoOut => (Leaving # {} \/ (Arrives /\ Entering = {}))
    /\ ~Arrives => Entering = {}

C19_FaultAnswered(o) ==
    (o # NoOut /\ (Took(o.trace, {"catch"}) \/ \E j \in 1..Len(o.got) : o.got[j] = Rejected))
        => /\ o.status = 500
           /\ DOMAIN o.body = {"error", "detail"}
           /\ o.body.detail \in STRING

C19_ExactlyOneResponse ==
    /\ [][C19_OneResponse /\ C19_FaultAnswered(out')]_vars
    /\ \A i \in Slots : (inv[i].pc # "idle") ~> (inv[i].pc = "idle")

\* a network call of an invocation in flight was rejected and the invocation
\* was answered, once, with the 500 envelope
C19_Witness ==
    /\ Answered
    /\ \E j \in 1..Len(out.got) : out.got[j] = Rejected
    /\ out.status = 500
    /\ out.trace[Len(out.trace)] = "respond"
    /\ \A i \in Slots : inv[i].pc = "idle"

====
